---- MODULE Spec2Model ----
(***************************************************************************)
(* Daily file cache of the Tunisafka menu API: CacheService (the file      *)
(* store), MenuService.getAllMenus / refreshMenus / clearCache (the        *)
(* serve-or-refresh policy) and the Extractor (ScrapingService) they call. *)
(*                                                                         *)
(* Every request runs as a chain of steps, one per await of the handler;   *)
(* requests of one Node process interleave at those awaits.  Files are     *)
(* modelled by the content reachable through a path, and an open file      *)
(* handle remembers which path its inode is currently reachable through.   *)
(***************************************************************************)
EXTENDS Integers, Sequences, FiniteSets, TLC

\* ------------------------------------------------------------------ bounds
MaxCalls == 2    \* requests started in one behaviour
MaxNow == 1      \* midnights that pass in one behaviour
MaxSelections == 3   \* selections recorded between two history clears
MaxSize == 2     \* largest history size a caller sets
MaxTags == 2     \* tags in one dietary or allergen list
MaxPasses == 2   \* successive enrichMenuItem calls on one item
MaxMenus == 2    \* raw menus in one batch handed to processMenus
MaxIterations == 2   \* selections a statistics helper is asked to make

\* RandomSelectionService constructor: this.maxHistorySize = 10.
DefaultMaxHistorySize == 10

\* concurrently served requests (HTTP requests in flight)
Slots == {"r1", "r2"}

VARIABLES
    now,                 \* the clock: number of midnights passed so far
    tzAhead,             \* TRUE: the configured zone is ahead of the process's local zone
    cacheFile,           \* content reachable as cache/daily-menus.json
    tmpFile,             \* content reachable as cache/daily-menus.json.tmp
    statsFile,           \* cache/cache-stats.json: <<>> or <<counters>>
    hits, misses,        \* CacheService counters
    lastAccess,          \* CacheService.lastAccess: "null" or "set" (an ISO time stamp)
    isInitialized,       \* MenuService._isInitialized
    lastScrapingResult,  \* MenuService.lastScrapingResult: <<>> or <<result>>
    lastUpdate,          \* MenuService.lastUpdate: "null" or "set" (an ISO time stamp)
    req,                 \* per slot: the request being served and its locals
    calls,               \* requests started so far
    menuObjs,            \* the menu objects in memory, by reference
    selectionHistory,    \* RandomSelectionService.selectionHistory (menu ids)
    maxHistorySize,      \* RandomSelectionService.maxHistorySize
    lastSelection,       \* RandomSelectionService.lastSelection: <<>> or <<info>>
    selectedMenu,        \* the object the last selection call returned ("none": it threw)
    selections,          \* ids selected since the history was last cleared, in order
    item,                \* the menu item object handed to enrichMenuItem
    passes,              \* what each enrichMenuItem call so far left and whether it threw
    scraped,             \* the raw menus handed to processMenus
    processed,           \* <<>> or <<the list processMenus returned>>
    clock,               \* Date.now() as the rate limiter reads it
    requests,            \* SimpleRateLimiter.requests: per client the recorded time stamps
    admitted,            \* per client the time stamps of all requests let through
    rejected             \* per client the time stamps of all requests turned away

vars == <<now, tzAhead, cacheFile, tmpFile, statsFile, hits, misses, lastAccess,
          isInitialized, lastScrapingResult, lastUpdate, req, calls,
          menuObjs, selectionHistory, maxHistorySize, lastSelection, selectedMenu,
          selections, item, passes, scraped, processed,
          clock, requests, admitted, rejected>>

\* ------------------------------------------------------------ the clock
\* Date the fallback branch of getCurrentDate() yields: the process-local day.
LocalDate(t) == IF tzAhead THEN t \div 2 ELSE t

\* Calendar day of instant t in the configured zone (this.timezone).
ZoneDate(t) == IF tzAhead THEN (t + 1) \div 2 ELSE t

\* CacheService.getCurrentDate(): Intl.DateTimeFormatter does not exist
\* (the API is Intl.DateTimeFormat), so the guarded branch is never taken and
\* the date is built from getFullYear/getMonth/getDate, i.e. local time.
getCurrentDate == LocalDate(now)

\* ------------------------------------------------------------ menu data
Origin == "https://unisafka.fi/tty/"

\* Raw menus; an item is written as its name, '' for a nameless one.
Hertsi == [id |-> "hertsi", title |-> "Hertsi", items |-> <<"Soup", "Salad">>]
Newton == [id |-> "", title |-> "Newton", items |-> <<"Pasta">>]
Untitled == [id |-> "", title |-> "", items |-> <<"Pasta">>]

\* What the source site may hold when it is fetched.
Sites == { <<Hertsi, Newton>>, <<Hertsi, Untitled>> }

\* Menu.generateId: lower-cased, non-alphanumerics collapsed to "-".
generateId(title) ==
    CASE title = "Hertsi" -> "hertsi"
      [] title = "Newton" -> "newton"
      [] title \in {"Lunch", "LUNCH!"} -> "lunch"
      [] title = "Undefined" -> "undefined"
      [] title = "Snacks" -> "snacks"
      [] OTHER -> ""

\* Menu.validate: id and title must be non-empty strings.
MenuValid(m) == m.id /= "" /\ m.title /= ""

\* MenuService.processMenuItems: an item that fails MenuItem.validate (no
\* name) becomes null and is dropped.
processMenuItems(items) == SelectSeq(items, LAMBDA name : name /= "")

\* Menu.fromScrapedData followed by the constructor's validate():
\* <<>> when validation throws (processMenu returns null).
processMenu(raw) ==
    LET m == [id |-> IF raw.id /= "" THEN raw.id ELSE generateId(raw.title),
              title |-> raw.title, items |-> processMenuItems(raw.items),
              inst |-> TRUE]
    IN IF MenuValid(m) THEN <<m>> ELSE <<>>

\* Mutation: the first menu that fails validation ends the processing.
RECURSIVE processEachUntilBad(_)
processEachUntilBad(rawMenus) ==
    IF rawMenus = <<>> \/ processMenu(Head(rawMenus)) = <<>> THEN <<>>
    ELSE processMenu(Head(rawMenus)) \o processEachUntilBad(Tail(rawMenus))

\* rawMenus.map(processMenu).filter(menu => menu !== null)
RECURSIVE processEach(_)
processEach(rawMenus) ==
    IF rawMenus = <<>> THEN <<>>
    ELSE processMenu(Head(rawMenus)) \o processEach(Tail(rawMenus))

\* `menu-${index + 1}` for the 0-based index of the filtered list.
fallbackId(i) ==
    CASE i = 1 -> "menu-1" [] i = 2 -> "menu-2" [] i = 3 -> "menu-3"
      [] OTHER -> "menu-4"

\* MenuService.processMenus: process each menu, drop the nulls, then give a
\* menu whose id is empty or 'undefined' the id of its position.
processMenus(rawMenus) ==
    LET kept == processEach(rawMenus)
    IN  [i \in 1..Len(kept) |->
            IF kept[i].id \in {"", "undefined"}
            THEN [kept[i] EXCEPT !.id = fallbackId(i)]
            ELSE kept[i]]

\* Menu.toJSON: a class instance becomes a plain object.
PlainMenu(m) == [m EXCEPT !.inst = FALSE]

\* JSON.stringify followed by JSON.parse of a menu list.
RECURSIVE ToJSON(_)
ToJSON(menus) ==
    IF menus = <<>> THEN <<>>
    ELSE <<PlainMenu(Head(menus))>> \o ToJSON(Tail(menus))

\* Mutation: a failure result counts the stand-in menu returned with it.
createFailureCountsMenu(msg) == [success |-> FALSE, menusFound |-> 1, error |-> msg]

\* ScrapingResult.createSuccess / createFailure.
createSuccess(n) == [success |-> TRUE, menusFound |-> n, error |-> ""]
createFailure(msg) == [success |-> FALSE, menusFound |-> 0, error |-> msg]

\* --------------------------------------------------------------- files
NoFile == [exists |-> FALSE, e |-> <<>>, len |-> 0]
EmptyFile == [exists |-> TRUE, e |-> <<>>, len |-> 0]

\* Length of the JSON text of an entry (grows with the menu list).
Size(entry) == 1 + Len(entry.menuData)

\* JSON.parse succeeds: the file holds exactly the text of one entry.
Parseable(f) == f.exists /\ f.e /= <<>> /\ f.len = Size(f.e[1])

\* handle.write(text) at offset 0 on a file opened earlier: the text replaces
\* the first bytes, whatever lay beyond its end stays.
WriteTo(f, entry) ==
    IF f.len <= Size(entry)
    THEN [exists |-> TRUE, e |-> <<entry>>, len |-> Size(entry)]
    ELSE [exists |-> TRUE, e |-> <<>>, len |-> f.len]

\* CacheService.createCacheEntry, as serialised by JSON.stringify (the ISO
\* time stamp of the write is left out: nothing reads it back but the response).
createCacheEntry(menuData, scrapingResult) ==
    [date |-> getCurrentDate, timezone |-> "Europe/Helsinki",
     menuData |-> ToJSON(menuData), scrapingResult |-> scrapingResult,
     version |-> "1.0.0"]

\* CacheService.isCacheValid applied to a read file.
isCacheValid(f) == Parseable(f) /\ f.e[1].date = getCurrentDate

\* Mutation: loadCache returns whatever entry parses, without the date check.
loadCacheAnyDate(f) == IF Parseable(f) THEN f.e ELSE <<>>

\* CacheService.loadCache on the text that was read: the entry when it parses
\* and is valid today, else null.
loadCache(f) == IF isCacheValid(f) THEN f.e ELSE <<>>

\* Mutation: the fallback read returns only entries older than today.
loadCacheForFallbackOlder(f) ==
    IF Parseable(f) /\ f.e[1].date < getCurrentDate THEN f.e ELSE <<>>

\* Mutation: the fallback read applies the validity check of loadCache.
loadCacheForFallbackChecked(f) == IF isCacheValid(f) THEN f.e ELSE <<>>

\* CacheService.loadCacheForFallback: the entry when it parses, whatever its date.
loadCacheForFallback(f) == IF Parseable(f) THEN f.e ELSE <<>>

\* An entry left in the cache directory by a run of the service on the day before.
LeftoverFile ==
    [exists |-> TRUE, len |-> 3,
     e |-> <<[date |-> -1, timezone |-> "Europe/Helsinki",
              menuData |-> ToJSON(processMenus(<<Hertsi, Newton>>)),
              scrapingResult |-> createSuccess(2), version |-> "1.0.0"]>>]

\* A cache file whose text is not JSON (a write cut short, 'invalid json').
CorruptFile == [exists |-> TRUE, e |-> <<>>, len |-> 2]

\* ------------------------------------------------------------ requests
NoResult == [status |-> "none", menus |-> <<>>, source |-> "", warning |-> "",
             scrapingError |-> "", cacheDate |-> -1, error |-> ""]

\* kind: the route; pc: the await the handler is suspended at; data: text read
\* by loadCache; menus, sres: processed menus and scraping result; ent: the
\* entry saveCache created; fd: the handle of fs.writeFile; old: whether a
\* complete entry was persisted when the write began; err: the caught error;
\* scrapes: Extractor calls made; result: what the service call returned;
\* prev: the request whose response the client had received when it sent this one.
ReqInit == [kind |-> "none", pc |-> "idle", data |-> NoFile, menus |-> <<>>,
            sres |-> <<>>, ent |-> <<>>, fd |-> "none", old |-> FALSE, err |-> "",
            scrapes |-> 0, result |-> NoResult, prev |-> "none"]

\* Where every open handle points after the inode at a path changed place.
MoveFds(r, map) == [p \in Slots |-> [r[p] EXCEPT !.fd = map[r[p].fd]]]

FdId == [none |-> "none", tmp |-> "tmp", cache |-> "cache", orphan |-> "orphan"]
AfterRename == [FdId EXCEPT !.tmp = "cache", !.cache = "orphan"]
AfterUnlinkCache == [FdId EXCEPT !.cache = "orphan"]
AfterUnlinkTmp == [FdId EXCEPT !.tmp = "orphan"]

\* ---------------------------------------------- the selection service
\* References to the menu objects a caller holds: three Menu instances, one
\* plain object as parsed from the cache file, and the object a clone creates.
MenuRefs == {"a", "b", "c", "p"}

\* The lists a caller hands to a selection method.
Lists == { <<>>, <<"a">>, <<"a", "b">>, <<"a", "b", "c">>, <<"p">>, <<"a", "p">> }

\* The objects before any selection; menu c was marked selected by its owner.
MenuObjsInit ==
    [r \in MenuRefs \cup {"out"} |->
        CASE r = "a" -> [id |-> "hertsi", inst |-> TRUE, isSelected |-> FALSE]
          [] r = "b" -> [id |-> "newton", inst |-> TRUE, isSelected |-> FALSE]
          [] r = "c" -> [id |-> "reaktori", inst |-> TRUE, isSelected |-> TRUE]
          [] r = "p" -> [id |-> "hertsi", inst |-> FALSE, isSelected |-> FALSE]
          [] OTHER -> [id |-> "", inst |-> FALSE, isSelected |-> FALSE]]

\* RandomSelectionService constructor.
SelectionInit ==
    /\ menuObjs = MenuObjsInit
    /\ selectionHistory = <<>>
    /\ maxHistorySize = DefaultMaxHistorySize
    /\ lastSelection = <<>>
    /\ selectedMenu = "none"
    /\ selections = <<>>

Selection == <<menuObjs, selectionHistory, maxHistorySize, lastSelection,
               selectedMenu, selections>>

\* ------------------------------------------------ item normalization
\* A string is the sequence of its pieces: words, blanks, currency signs and
\* numerals; '' is <<>>.  A tag is a string or, after a lookup that found an
\* inherited property, a function.
Str(s) == [fn |-> FALSE, s |-> s]

\* The function Object: what standardMap['constructor'] evaluates to, since
\* an object literal inherits the properties of Object.prototype.
ObjectFn == [fn |-> TRUE, s |-> <<>>]

\* The length property of a tag; Object.length is 1.
length(t) == IF t.fn THEN 1 ELSE Len(t.s)

\* String.prototype.toLowerCase, piece by piece.
toLowerCase(s) ==
    [i \in 1..Len(s) |->
        CASE s[i] = "VEG" -> "veg"
          [] s[i] = "Contains" -> "contains"
          [] OTHER -> s[i]]

\* String.prototype.trim
RECURSIVE trim(_)
trim(s) ==
    IF s /= <<>> /\ Head(s) = " " THEN trim(Tail(s))
    ELSE IF s /= <<>> /\ s[Len(s)] = " " THEN trim(SubSeq(s, 1, Len(s) - 1))
    ELSE s

\* .filter((item, index, array) => array.indexOf(item) === index)
RECURSIVE removeDuplicates(_)
removeDuplicates(a) ==
    IF a = <<>> THEN <<>>
    ELSE LET front == SubSeq(a, 1, Len(a) - 1)
             last == a[Len(a)]
         IN  IF \E i \in 1..Len(front) : front[i] = last
             THEN removeDuplicates(front)
             ELSE Append(removeDuplicates(front), last)

\* item.toLowerCase() on a tag that is not a string raises a TypeError.
TagThrows(tags) == \E i \in 1..Len(tags) : tags[i].fn

\* The .map callback of standardizeDietaryInfo:
\* standardMap[normalized] || normalized.
dietaryTag(t) ==
    LET normalized == trim(toLowerCase(t.s))
    IN  CASE normalized \in {<<"veg">>, <<"veggie">>} -> Str(<<"vegetarian">>)
          [] normalized = <<"plant-based">> -> Str(<<"vegan">>)
          [] normalized = <<"luomu">> -> Str(<<"organic">>)
          [] normalized = <<"constructor">> -> ObjectFn
          [] OTHER -> Str(normalized)

\* MenuService.standardizeDietaryInfo on an array of strings.
standardizeDietaryInfo(dietary) ==
    SelectSeq(removeDuplicates([i \in 1..Len(dietary) |-> dietaryTag(dietary[i])]),
              LAMBDA t : length(t) > 0)

\* The .map callback of standardizeAllergenInfo: standardMap[normalized] ||
\* (item.startsWith('contains') ? item : `contains ${item}`).
allergenTag(t) ==
    LET normalized == trim(toLowerCase(t.s))
    IN  CASE normalized \in {<<"gluten">>, <<"wheat">>} ->
                Str(<<"contains", " ", "gluten">>)
          [] normalized = <<"nuts">> -> Str(<<"contains", " ", "nuts">>)
          [] normalized = <<"constructor">> -> ObjectFn
          [] OTHER -> IF t.s /= <<>> /\ Head(t.s) = "contains"
                      THEN t
                      ELSE Str(<<"contains", " ">> \o t.s)

\* MenuService.standardizeAllergenInfo on an array of strings.
standardizeAllergenInfo(allergens) ==
    SelectSeq(removeDuplicates([i \in 1..Len(allergens) |-> allergenTag(allergens[i])]),
              LAMBDA t : length(t) > 0)

\* The numerals of the price strings and their values in cents.
Numerals == {"0", "12", "12.50", "12.00"}

parseFloat(piece) ==
    CASE piece = "0" -> 0 [] piece = "12.50" -> 1250 [] OTHER -> 1200

\* Number.prototype.toFixed(2)
toFixed2(cents) == IF cents = 1250 THEN "12.50" ELSE "12.00"

\* MenuItem.getPriceNumeric: the first run of digits, with two decimals when
\* they follow, else 0.
getPriceNumeric(price) ==
    LET hits0 == {i \in 1..Len(price) : price[i] \in Numerals}
    IN  IF hits0 = {} THEN 0
        ELSE parseFloat(price[CHOOSE i \in hits0 : \A j \in hits0 : i <= j])

\* The price enrichMenuItem leaves.
standardPrice(price) ==
    IF price /= <<>> /\ (\A i \in 1..Len(price) : price[i] /= "€")
                    /\ getPriceNumeric(price) > 0
    THEN <<"€", toFixed2(getPriceNumeric(price))>>
    ELSE price

\* The items handed in: every field as validate() accepts it.
Prices == { <<>>, <<"12">>, <<"12.50">>, <<"12", ".5">>, <<"€", "12.50">>,
            <<"abc">>, <<"0">> }

DietaryTags == { Str(<<"veg">>), Str(<<" ", "VEG">>), Str(<<"vegetarian">>),
                 Str(<<>>), Str(<<"constructor">>) }

AllergenTags == { Str(<<"wheat">>), Str(<<"contains", " ", "gluten">>),
                  Str(<<"Contains", " ", "nuts">>), Str(<<" ", "sesame">>),
                  Str(<<>>) }

TagLists(tags) == UNION { [1..n -> tags] : n \in 0..MaxTags }

MenuItems ==
    [price : Prices, dietary : TagLists(DietaryTags),
     allergens : TagLists(AllergenTags)]

\* No item is being processed.
ItemInit ==
    /\ item = [price |-> <<>>, dietary |-> <<>>, allergens |-> <<>>]
    /\ passes = <<>>

Items == <<item, passes>>

\* ------------------------------------------------- batches of raw menus
\* No batch is being processed.
BatchInit ==
    /\ scraped = <<>>
    /\ processed = <<>>

Batch == <<scraped, processed>>

\* Raw menus a site may list besides the ones above: two whose titles give
\* the same id, one whose title gives the id 'undefined', one whose only item
\* has no name.
Lunch == [id |-> "", title |-> "Lunch", items |-> <<"Soup">>]
LunchSpecial == [id |-> "", title |-> "LUNCH!", items |-> <<"Salad">>]
Undefined == [id |-> "", title |-> "Undefined", items |-> <<"Soup">>]
Snacks == [id |-> "", title |-> "Snacks", items |-> <<"">>]

RawMenus == {Hertsi, Newton, Untitled, Lunch, LunchSpecial, Undefined, Snacks}

Batches == UNION { [1..n -> RawMenus] : n \in 0..MaxMenus }

\* ------------------------------------------------------ the rate limiter
\* The clients, by IP address.
Clients == {"ip1", "ip2"}

\* SimpleRateLimiter constructor: an empty map (a client without an entry
\* is written as one with an empty list).
LimiterInit ==
    /\ clock = 0
    /\ requests = [ip \in Clients |-> <<>>]
    /\ admitted = [ip \in Clients |-> <<>>]
    /\ rejected = [ip \in Clients |-> <<>>]

Limiter == <<clock, requests, admitted, rejected>>

InitFiles ==
    /\ now = 0
    /\ cacheFile \in {NoFile, LeftoverFile}
    /\ tmpFile = NoFile
    /\ statsFile = <<>>
    /\ hits = 0
    /\ misses = 0
    /\ lastAccess = "null"
    /\ isInitialized = FALSE
    /\ lastScrapingResult = <<>>
    /\ lastUpdate = "null"
    /\ req = [p \in Slots |-> ReqInit]
    /\ calls = 0
    /\ SelectionInit
    /\ ItemInit
    /\ BatchInit
    /\ LimiterInit

\* The process runs in the configured zone (TZ = Europe/Helsinki).
Init == InitFiles /\ tzAhead = FALSE

\* The process may also run in a zone behind the configured one (TZ = UTC).
InitZone == InitFiles /\ tzAhead \in BOOLEAN

Files == <<cacheFile, tmpFile, statsFile>>
Counters == <<hits, misses, lastAccess>>
Service == <<isInitialized, lastScrapingResult, lastUpdate>>
Clock == <<now, tzAhead>>

\* A request arrives: GET /api/menus, POST /api/cache/refresh or DELETE /api/cache/clear.
Start(p, k) ==
    /\ req[p].pc = "idle"
    /\ calls < MaxCalls
    /\ req' = [req EXCEPT ![p] = [ReqInit EXCEPT !.kind = k, !.pc = "init"]]
    /\ calls' = calls + 1
    /\ UNCHANGED <<Limiter, Batch, Items, Selection, Clock, Files, Counters, Service>>

StartGet(p) == Start(p, "get")
StartRefresh(p) == Start(p, "refresh")
StartClear(p) == Start(p, "clear")

\* GET /api/menus/random and GET /api/cache/status.
StartRandom(p) == Start(p, "random")
StartStats(p) == Start(p, "stats")

\* A client that has received the success response of its DELETE /clear sends
\* GET /api/menus next.
GetAfterClear(p) ==
    /\ req[p].pc = "done"
    /\ req[p].kind = "clear"
    /\ req[p].result.status = "ok"
    /\ req' = [req EXCEPT ![p] = [ReqInit EXCEPT !.kind = "get", !.pc = "init",
                                                  !.prev = "clear"]]
    /\ UNCHANGED <<Limiter, Batch, Items, Selection, Clock, Files, Counters, Service, calls>>

\* A client that has received the response of its GET /api/menus sends the
\* next one at once.
GetAfterGet(p) ==
    /\ req[p].pc = "done"
    /\ req[p].kind = "get"
    /\ req[p].prev = "none"
    /\ req' = [req EXCEPT ![p] = [ReqInit EXCEPT !.kind = "get", !.pc = "init",
                                                  !.prev = "get"]]
    /\ UNCHANGED <<Limiter, Batch, Items, Selection, Clock, Files, Counters, Service, calls>>

\* What the service method does after its await of initialize().
AfterInit(k) ==
    CASE k \in {"get", "random"} -> "load"
      [] k = "stats" -> "statsLoad"
      [] OTHER -> "clear"

\* MenuService.initialize: the flag is tested, the store is initialised when unset.
MsInitialize(p) ==
    /\ req[p].pc = "init"
    /\ req' = [req EXCEPT ![p].pc =
                 IF isInitialized THEN AfterInit(req[p].kind) ELSE "loadStats"]
    /\ UNCHANGED <<Limiter, Batch, Items, Selection, Clock, Files, Counters, Service, calls>>

\* CacheService.initialize -> loadStats, then _isInitialized = true.
LoadStats(p) ==
    /\ req[p].pc = "loadStats"
    /\ hits' = IF statsFile = <<>> THEN 0 ELSE statsFile[1].totalHits
    /\ misses' = IF statsFile = <<>> THEN 0 ELSE statsFile[1].totalMisses
    /\ isInitialized' = TRUE
    /\ req' = [req EXCEPT ![p].pc = AfterInit(req[p].kind)]
    /\ UNCHANGED <<Limiter, Batch, Items, Selection, Clock, Files, lastAccess, lastScrapingResult, lastUpdate, calls>>

\* Mutation: clearCache reports success and leaves the file in place.
ClearCacheKeepsFile(p) ==
    /\ req[p].pc = "clear"
    /\ IF req[p].kind = "refresh"
       THEN /\ req' = [req EXCEPT ![p].pc = "load"]
            /\ lastUpdate' = "null"
            /\ lastScrapingResult' = <<>>
       ELSE /\ req' = [req EXCEPT ![p].pc = "done",
                          ![p].result = [NoResult EXCEPT !.status = "ok"]]
            /\ UNCHANGED <<lastUpdate, lastScrapingResult>>
    /\ UNCHANGED <<Limiter, Batch, Items, Selection, Clock, Files, Counters, isInitialized, calls>>

\* CacheService.clearCache (unlink) for DELETE /clear, and the first half of
\* MenuService.refreshMenus, which then resets its metadata and calls getAllMenus.
ClearCache(p) ==
    /\ req[p].pc = "clear"
    /\ cacheFile' = NoFile
    /\ IF req[p].kind = "refresh"
       THEN /\ req' = [MoveFds(req, AfterUnlinkCache) EXCEPT ![p].pc = "load"]
            /\ lastUpdate' = "null"
            /\ lastScrapingResult' = <<>>
       ELSE /\ req' = [MoveFds(req, AfterUnlinkCache) EXCEPT ![p].pc = "done",
                          ![p].result = [NoResult EXCEPT !.status = "ok"]]
            /\ UNCHANGED <<lastUpdate, lastScrapingResult>>
    /\ UNCHANGED <<Limiter, Batch, Items, Selection, Clock, tmpFile, statsFile, Counters, isInitialized, calls>>

\* clearCache when unlink fails with something other than ENOENT.
ClearCacheFails(p) ==
    /\ req[p].pc = "clear"
    /\ cacheFile.exists
    /\ req' = [req EXCEPT ![p].pc = "done",
                 ![p].result = [NoResult EXCEPT !.status = "error",
                                                !.error = "Cache clear failed"]]
    /\ UNCHANGED <<Limiter, Batch, Items, Selection, Clock, Files, Counters, Service, calls>>

\* CacheService.loadCache, first half: fs.readFile of the cache file.
LoadCache(p) ==
    /\ req[p].pc = "load"
    /\ req' = [req EXCEPT ![p].pc = "check", ![p].data = cacheFile]
    /\ UNCHANGED <<Limiter, Batch, Items, Selection, Clock, Files, Counters, Service, calls>>

\* Mutation: the hit response carries the plain origin as its source.
HitResultPlainSource(entry) ==
    [NoResult EXCEPT !.status = "ok", !.menus = entry.menuData,
                     !.source = Origin, !.cacheDate = entry.date]

\* The response getAllMenus builds from getCachedMenus on a hit.
HitResult(entry) ==
    [NoResult EXCEPT !.status = "ok", !.menus = entry.menuData,
                     !.source = Origin \o " (cached)", !.cacheDate = entry.date]

\* loadCache, second half (JSON.parse, isCacheValid, counters), then
\* getCachedMenus and the hit branch of getAllMenus.
CheckCache(p) ==
    /\ req[p].pc = "check"
    /\ IF loadCache(req[p].data) /= <<>>
       THEN LET entry == loadCache(req[p].data)[1] IN
            /\ hits' = hits + 1
            /\ lastAccess' = "set"
            /\ lastUpdate' = "set"
            /\ lastScrapingResult' = <<entry.scrapingResult>>
            /\ req' = [req EXCEPT ![p].pc = "done", ![p].result = HitResult(entry)]
            /\ UNCHANGED misses
       ELSE /\ misses' = misses + 1
            /\ req' = [req EXCEPT ![p].pc = "scrape", ![p].data = NoFile]
            /\ UNCHANGED <<hits, lastAccess, lastUpdate, lastScrapingResult>>
    /\ UNCHANGED <<Limiter, Batch, Items, Selection, Clock, Files, isInitialized, calls>>

\* Mutation: the scraping result counts the menus left after processing.
ScrapeOkCountsProcessed(p) ==
    /\ req[p].pc = "scrape"
    /\ \E site \in Sites :
         req' = [req EXCEPT ![p].pc = "save", ![p].scrapes = 1,
                            ![p].menus = processMenus(site),
                            ![p].sres = <<createSuccess(Len(processMenus(site)))>>]
    /\ UNCHANGED <<Limiter, Batch, Items, Selection, Clock, Files, Counters, Service, calls>>

\* ScrapingService.scrapeMenus succeeds, then processMenus.
ScrapeOk(p) ==
    /\ req[p].pc = "scrape"
    /\ \E site \in Sites :
         req' = [req EXCEPT ![p].pc = "save", ![p].scrapes = 1,
                            ![p].menus = processMenus(site),
                            ![p].sres = <<createSuccess(Len(site))>>]
    /\ UNCHANGED <<Limiter, Batch, Items, Selection, Clock, Files, Counters, Service, calls>>

\* scrapeMenus' own catch branch: a failure result together with one menu.
ScrapeCaught(p) ==
    /\ req[p].pc = "scrape"
    /\ req' = [req EXCEPT ![p].pc = "save", ![p].scrapes = 1,
                          ![p].menus = processMenus(<<Hertsi>>),
                          ![p].sres = <<createFailure("Scraping failed")>>]
    /\ UNCHANGED <<Limiter, Batch, Items, Selection, Clock, Files, Counters, Service, calls>>

\* The Extractor call rejects (network or parse failure).
ScrapeThrows(p) ==
    /\ req[p].pc = "scrape"
    /\ req' = [req EXCEPT ![p].pc = "fallback", ![p].scrapes = 1,
                          ![p].err = "Scraping failed"]
    /\ UNCHANGED <<Limiter, Batch, Items, Selection, Clock, Files, Counters, Service, calls>>

\* saveCache: createCacheEntry, then fs.writeFile opens the temp file with
\* flag 'w' (create or truncate).
SaveOpen(p) ==
    /\ req[p].pc = "save"
    /\ tmpFile' = EmptyFile
    /\ req' = [req EXCEPT ![p].pc = "write", ![p].fd = "tmp",
                 ![p].old = Parseable(cacheFile),
                 ![p].ent = <<createCacheEntry(req[p].menus, req[p].sres[1])>>]
    /\ UNCHANGED <<Limiter, Batch, Items, Selection, Clock, cacheFile, statsFile, Counters, Service, calls>>

\* fs.writeFile cannot open the temp file (disk full, permissions).
SaveOpenFails(p) ==
    /\ req[p].pc = "save"
    /\ req' = [req EXCEPT ![p].pc = "cleanup"]
    /\ UNCHANGED <<Limiter, Batch, Items, Selection, Clock, Files, Counters, Service, calls>>

\* fs.writeFile writes the text through its handle and closes it.
SaveWrite(p) ==
    /\ req[p].pc = "write"
    /\ tmpFile' = IF req[p].fd = "tmp" THEN WriteTo(tmpFile, req[p].ent[1]) ELSE tmpFile
    /\ cacheFile' = IF req[p].fd = "cache" THEN WriteTo(cacheFile, req[p].ent[1]) ELSE cacheFile
    /\ req' = [req EXCEPT ![p].pc = "rename", ![p].fd = "none"]
    /\ UNCHANGED <<Limiter, Batch, Items, Selection, Clock, statsFile, Counters, Service, calls>>

\* fs.rename(tempFile, cacheFile); ENOENT when the temp path is gone.
SaveRename(p) ==
    /\ req[p].pc = "rename"
    /\ IF tmpFile.exists
       THEN /\ cacheFile' = tmpFile
            /\ tmpFile' = NoFile
            /\ req' = [MoveFds(req, AfterRename) EXCEPT ![p].pc = "stats"]
       ELSE /\ req' = [req EXCEPT ![p].pc = "cleanup"]
            /\ UNCHANGED <<cacheFile, tmpFile>>
    /\ UNCHANGED <<Limiter, Batch, Items, Selection, Clock, statsFile, Counters, Service, calls>>

\* fs.rename fails for another reason.
SaveRenameFails(p) ==
    /\ req[p].pc = "rename"
    /\ tmpFile.exists
    /\ req' = [req EXCEPT ![p].pc = "cleanup"]
    /\ UNCHANGED <<Limiter, Batch, Items, Selection, Clock, Files, Counters, Service, calls>>

\* Mutation: the catch rethrows without removing the temp file.
SaveCleanupKeepsTemp(p) ==
    /\ req[p].pc = "cleanup"
    /\ req' = [req EXCEPT ![p].pc = "fallback", ![p].err = "Cache save failed"]
    /\ UNCHANGED <<Limiter, Batch, Items, Selection, Clock, Files, Counters, Service, calls>>

\* catch (renameError): unlink the temp file, errors ignored, then rethrow as
\* 'Cache save failed', which getAllMenus catches.
SaveCleanup(p) ==
    /\ req[p].pc = "cleanup"
    /\ tmpFile' = NoFile
    /\ req' = [MoveFds(req, AfterUnlinkTmp) EXCEPT ![p].pc = "fallback",
                 ![p].err = "Cache save failed"]
    /\ UNCHANGED <<Limiter, Batch, Items, Selection, Clock, cacheFile, statsFile, Counters, Service, calls>>

\* The response of the fresh path of getAllMenus.
FreshResult(menus) ==
    [NoResult EXCEPT !.status = "ok", !.menus = menus, !.source = Origin]

\* updateStats (a failure there is swallowed), then back in getAllMenus the
\* metadata update and the fresh response.
FinishFresh(p, written) ==
    /\ req[p].pc = "stats"
    /\ statsFile' = IF written THEN <<[totalHits |-> hits, totalMisses |-> misses]>>
                    ELSE statsFile
    /\ lastScrapingResult' = req[p].sres
    /\ lastUpdate' = "set"
    /\ req' = [req EXCEPT ![p].pc = "done", ![p].result = FreshResult(req[p].menus)]
    /\ UNCHANGED <<Limiter, Batch, Items, Selection, Clock, cacheFile, tmpFile, Counters, isInitialized, calls>>

UpdateStats(p) == FinishFresh(p, TRUE)
UpdateStatsFails(p) == FinishFresh(p, FALSE)

\* The response of the catch branch when loadCacheForFallback finds an entry.
StaleResult(entry, error) ==
    [NoResult EXCEPT !.status = "ok", !.menus = entry.menuData,
                     !.source = Origin \o " (stale cache)",
                     !.warning = "Serving cached data due to scraping failure",
                     !.scrapingError = error, !.cacheDate = entry.date]

\* Mutation: without a fallback entry the catch branch answers an empty list.
FallbackEmptyList(p) ==
    /\ req[p].pc = "fallback"
    /\ req' = [req EXCEPT ![p].pc = "done",
                 ![p].result = IF loadCacheForFallback(cacheFile) /= <<>>
                               THEN StaleResult(loadCacheForFallback(cacheFile)[1],
                                                req[p].err)
                               ELSE [NoResult EXCEPT !.status = "ok",
                                                     !.source = Origin]]
    /\ UNCHANGED <<Limiter, Batch, Items, Selection, Clock, Files, Counters, Service, calls>>

\* catch branch of getAllMenus: loadCacheForFallback, else rethrow.
Fallback(p) ==
    /\ req[p].pc = "fallback"
    /\ req' = [req EXCEPT ![p].pc = "done",
                 ![p].result = IF loadCacheForFallback(cacheFile) /= <<>>
                               THEN StaleResult(loadCacheForFallback(cacheFile)[1],
                                                req[p].err)
                               ELSE [NoResult EXCEPT !.status = "error",
                                                     !.error = req[p].err]]
    /\ UNCHANGED <<Limiter, Batch, Items, Selection, Clock, Files, Counters, Service, calls>>

\* CacheService.getCacheStats, first await: loadCache reads the cache file.
StatsLoad(p) ==
    /\ req[p].pc = "statsLoad"
    /\ req' = [req EXCEPT ![p].pc = "statsCheck", ![p].data = cacheFile]
    /\ UNCHANGED <<Limiter, Batch, Items, Selection, Clock, Files, Counters, Service, calls>>

\* loadCache, second half, inside getCacheStats: JSON.parse, isCacheValid and
\* the counters; the entry (or null) is kept for the report.
StatsCheck(p) ==
    /\ req[p].pc = "statsCheck"
    /\ IF loadCache(req[p].data) /= <<>>
       THEN /\ hits' = hits + 1
            /\ lastAccess' = "set"
            /\ req' = [req EXCEPT ![p].pc = "statsStat"]
            /\ UNCHANGED misses
       ELSE /\ misses' = misses + 1
            /\ req' = [req EXCEPT ![p].pc = "statsStat", ![p].data = NoFile]
            /\ UNCHANGED <<hits, lastAccess>>
    /\ UNCHANGED <<Limiter, Batch, Items, Selection, Clock, Files, Service, calls>>

\* getCacheStats: fs.stat of the cache file, then the report.
StatsStat(p) ==
    /\ req[p].pc = "statsStat"
    /\ req' = [req EXCEPT ![p].pc = "done", ![p].data = NoFile,
                 ![p].result = [NoResult EXCEPT !.status = "ok",
                                  !.cacheDate = IF req[p].data.e /= <<>>
                                                THEN req[p].data.e[1].date ELSE -1]]
    /\ UNCHANGED <<Limiter, Batch, Items, Selection, Clock, Files, Counters, Service, calls>>

\* The response is sent; the slot is free for the next request.
Respond(p) ==
    /\ req[p].pc = "done"
    /\ req' = [req EXCEPT ![p] = ReqInit]
    /\ UNCHANGED <<Limiter, Batch, Items, Selection, Clock, Files, Counters, Service, calls>>

\* Midnight passes (in the configured zone, in the local zone, or in both).
Tick ==
    /\ now < MaxNow
    /\ now' = now + 1
    /\ UNCHANGED <<Limiter, Batch, Items, Selection, tzAhead, Files, Counters, Service, req, calls>>

\* The process dies and is started again: requests in flight and everything
\* in memory are lost, the files stay as they are.
Crash ==
    /\ \E p \in Slots : req[p].pc /= "idle"
    /\ req' = [p \in Slots |-> ReqInit]
    /\ hits' = 0
    /\ misses' = 0
    /\ lastAccess' = "null"
    /\ isInitialized' = FALSE
    /\ lastScrapingResult' = <<>>
    /\ lastUpdate' = "null"
    /\ UNCHANGED <<Limiter, Batch, Items, Selection, Clock, Files, calls>>

\* The state of the menu service and its cache.
Service0 == <<now, tzAhead, cacheFile, tmpFile, statsFile, hits, misses, lastAccess,
              isInitialized, lastScrapingResult, lastUpdate, req, calls>>

\* ---------------------------------------------- MenuService.processMenus
\* processMenus is applied to the batch the Extractor returned.
ProcessBatch ==
    /\ processed = <<>>
    /\ processed' = <<processMenus(scraped)>>
    /\ UNCHANGED <<Limiter, scraped, Items, Selection, Service0>>

\* A batch of raw menus arrives and is processed.
InitBatch ==
    /\ SelectionInit
    /\ ItemInit
    /\ LimiterInit
    /\ scraped \in Batches
    /\ processed = <<>>
    /\ now = 0
    /\ tzAhead = FALSE
    /\ cacheFile = NoFile
    /\ tmpFile = NoFile
    /\ statsFile = <<>>
    /\ hits = 0
    /\ misses = 0
    /\ lastAccess = "null"
    /\ isInitialized = FALSE
    /\ lastScrapingResult = <<>>
    /\ lastUpdate = "null"
    /\ req = [p \in Slots |-> ReqInit]
    /\ calls = 0

SpecBatch == InitBatch /\ [][ProcessBatch]_vars

\* --------------------------------------------- MenuService.enrichMenuItem
\* The item as one call leaves it: the price is assigned first, then the
\* dietary tags, then the allergen tags; a throwing step ends the call.
enrichMenuItem(it) ==
    LET priced == [it EXCEPT !.price = standardPrice(it.price)]
        tagged == [priced EXCEPT !.dietary = standardizeDietaryInfo(it.dietary)]
    IN  IF TagThrows(it.dietary) THEN [item |-> priced, threw |-> TRUE]
        ELSE IF TagThrows(it.allergens) THEN [item |-> tagged, threw |-> TRUE]
        ELSE [item |-> [tagged EXCEPT !.allergens =
                            standardizeAllergenInfo(it.allergens)],
              threw |-> FALSE]

\* One more enrichMenuItem call on the item, unless the last one threw.
Enrich ==
    /\ Len(passes) < MaxPasses
    /\ IF passes = <<>> THEN TRUE ELSE ~passes[Len(passes)].threw
    /\ item' = enrichMenuItem(item).item
    /\ passes' = Append(passes, enrichMenuItem(item))
    /\ UNCHANGED <<Limiter, Batch, Selection, Service0>>

\* A valid item is handed in and normalized repeatedly.
InitItems ==
    /\ SelectionInit
    /\ item \in MenuItems
    /\ passes = <<>>
    /\ BatchInit
    /\ LimiterInit
    /\ now = 0
    /\ tzAhead = FALSE
    /\ cacheFile = NoFile
    /\ tmpFile = NoFile
    /\ statsFile = <<>>
    /\ hits = 0
    /\ misses = 0
    /\ lastAccess = "null"
    /\ isInitialized = FALSE
    /\ lastScrapingResult = <<>>
    /\ lastUpdate = "null"
    /\ req = [p \in Slots |-> ReqInit]
    /\ calls = 0

SpecItems == InitItems /\ [][Enrich]_vars

\* ------------------------------------- RandomSelectionService methods
\* Array.prototype.slice(-n): the last n elements; slice(-0) is slice(0), the
\* whole array.
SliceLast(s, n) ==
    IF n = 0 \/ Len(s) <= n THEN s ELSE SubSeq(s, Len(s) - n + 1, Len(s))

\* menus.filter(menu => menu instanceof Menu)
ValidMenus(list) == SelectSeq(list, LAMBDA r : menuObjs[r].inst)

\* Mutation: clone() hands back the menu itself.
cloneSameObject(r) == r

\* Menu.clone: a new Menu built from the fields of this one.
clone(r) == "out"

\* Mutation: the history keeps its oldest entries when it overflows.
updateSelectionHistoryKeepsOldest(history, menuId) ==
    IF Len(history) + 1 > maxHistorySize
    THEN SubSeq(Append(history, menuId), 1, maxHistorySize)
    ELSE Append(history, menuId)

\* RandomSelectionService.updateSelectionHistory
updateSelectionHistory(history, menuId) ==
    IF Len(history) + 1 > maxHistorySize
    THEN SliceLast(Append(history, menuId), maxHistorySize)
    ELSE Append(history, menuId)

\* The common tail of the selection methods: clone the chosen menu, mark the
\* clone selected, record its id, remember and return the selection.
Choose(candidates, draw, totalAvailable) ==
    LET r == candidates[draw + 1]
        c == clone(r)
    IN /\ Len(selections) < MaxSelections
       /\ menuObjs' = [menuObjs EXCEPT ![c] = [menuObjs[r] EXCEPT !.isSelected = TRUE]]
       /\ selectionHistory' = updateSelectionHistory(selectionHistory, menuObjs[r].id)
       /\ lastSelection' = <<[menuId |-> menuObjs[r].id,
                              totalAvailable |-> totalAvailable]>>
       /\ selectedMenu' = c
       /\ selections' = Append(selections, menuObjs[r].id)
       /\ UNCHANGED <<Limiter, Batch, Items, Service0, maxHistorySize>>

\* A selection method throws ('No menus available ...', 'No valid menus ...').
Throws ==
    /\ selectedMenu' = "none"
    /\ UNCHANGED <<Limiter, Batch, Items, Service0, menuObjs, selectionHistory, maxHistorySize,
                   lastSelection, selections>>

\* RandomSelectionService.selectRandomMenu(menus)
SelectRandom(list) ==
    IF ValidMenus(list) = <<>>
    THEN Throws
    ELSE \E draw \in 0..(Len(ValidMenus(list)) - 1) :
            Choose(ValidMenus(list), draw, Len(ValidMenus(list)))

\* The menus selectRandomMenuWithAntiRepeat chooses from.
menusToChooseFrom(list, avoidRecentCount) ==
    LET validMenus == ValidMenus(list)
        recentSelections == SliceLast(selectionHistory, avoidRecentCount)
        availableMenus ==
            SelectSeq(validMenus,
                      LAMBDA r : \A i \in 1..Len(recentSelections) :
                                    recentSelections[i] /= menuObjs[r].id)
    IN IF Len(validMenus) <= avoidRecentCount THEN validMenus
       ELSE IF availableMenus /= <<>> THEN availableMenus
       ELSE validMenus

\* RandomSelectionService.selectRandomMenuWithAntiRepeat(menus, avoidRecentCount)
SelectAntiRepeat(list, avoidRecentCount) ==
    IF ValidMenus(list) = <<>>
    THEN Throws
    ELSE \E draw \in 0..(Len(menusToChooseFrom(list, avoidRecentCount)) - 1) :
            Choose(menusToChooseFrom(list, avoidRecentCount), draw,
                   Len(ValidMenus(list)))

\* RandomSelectionService.clearHistory
ClearHistory ==
    /\ selectionHistory' = <<>>
    /\ lastSelection' = <<>>
    /\ selections' = <<>>
    /\ UNCHANGED <<Limiter, Batch, Items, Service0, menuObjs, maxHistorySize, selectedMenu>>

\* RandomSelectionService.setMaxHistorySize(size)
SetMaxHistorySize(size) ==
    LET m == IF size > 1 THEN size ELSE 1 IN
    /\ maxHistorySize' = m
    /\ selectionHistory' = IF Len(selectionHistory) > m
                           THEN SliceLast(selectionHistory, m)
                           ELSE selectionHistory
    /\ UNCHANGED <<Limiter, Batch, Items, Service0, menuObjs, lastSelection, selectedMenu, selections>>

\* The random indices of the selections a helper makes among n menus.
Draws(n) == UNION { [1..k -> 0..(n - 1)] : k \in 0..MaxIterations }

\* The history after selectRandomMenu chose candidates[draws[i] + 1] in turn.
RECURSIVE historyAfter(_, _, _)
historyAfter(history, candidates, draws) ==
    IF draws = <<>> THEN history
    ELSE historyAfter(updateSelectionHistory(history,
                                             menuObjs[candidates[Head(draws) + 1]].id),
                      candidates, Tail(draws))

\* Mutation: the finally block leaves the history of the helper's selections.
restoreHistoryKeepsCurrent(originalHistory, current) == current

\* finally { this.selectionHistory = originalHistory }
restoreHistory(originalHistory, current) == originalHistory

\* What the selections of a helper leave besides the history: the last
\* clone and lastSelection.
HelperSelections(candidates, draws, clearedLast) ==
    IF draws = <<>>
    THEN /\ lastSelection' = IF clearedLast THEN <<>> ELSE lastSelection
         /\ UNCHANGED menuObjs
    ELSE LET r == candidates[draws[Len(draws)] + 1] IN
         /\ menuObjs' = [menuObjs EXCEPT
                           ![clone(r)] = [menuObjs[r] EXCEPT !.isSelected = TRUE]]
         /\ lastSelection' = <<[menuId |-> menuObjs[r].id,
                                totalAvailable |-> Len(candidates)]>>

\* RandomSelectionService.testRandomness(menus, iterations): the checks, a
\* copy of the history, clearHistory, the selections, and the restore in the
\* finally block; it returns statistics, no menu.
TestRandomness(list, draws) ==
    IF Len(list) < 2 \/ Len(ValidMenus(list)) < 2
    THEN Throws
    ELSE /\ selectedMenu' = "none"
         /\ \A i \in 1..Len(draws) : draws[i] < Len(ValidMenus(list))
         /\ selectionHistory' =
              restoreHistory(selectionHistory,
                             historyAfter(<<>>, ValidMenus(list), draws))
         /\ HelperSelections(ValidMenus(list), draws, TRUE)
         /\ UNCHANGED <<Limiter, Batch, Items, Service0, maxHistorySize, selections>>

\* RandomSelectionService.createMultipleSelections(menus, count): a copy of
\* the history, the selections (selectRandomMenu throws when no menu of the
\* list is valid), and the restore in the finally block.
CreateMultipleSelections(list, draws) ==
    IF list = <<>> \/ (ValidMenus(list) = <<>> /\ draws /= <<>>)
    THEN Throws
    ELSE /\ selectedMenu' = "none"
         /\ \A i \in 1..Len(draws) : draws[i] < Len(ValidMenus(list))
         /\ selectionHistory' =
              restoreHistory(selectionHistory,
                             historyAfter(selectionHistory, ValidMenus(list), draws))
         /\ HelperSelections(ValidMenus(list), draws, FALSE)
         /\ UNCHANGED <<Limiter, Batch, Items, Service0, maxHistorySize, selections>>

\* The number Infinity, written as a mark: real weights are at least 0.1.
Infinity == -1

\* Menu.getItemCount of the menus a caller holds.
getItemCount(r) == IF r = "a" THEN 2 ELSE 1

\* The weights option: baseWeight and itemCountBonus.
Weights == { [baseWeight |-> 1, itemCountBonus |-> 1],
             [baseWeight |-> Infinity, itemCountBonus |-> 0] }

\* The weight selectWeightedRandomMenu gives a menu.
menuWeight(r, weights) ==
    IF weights.baseWeight = Infinity THEN Infinity
    ELSE weights.baseWeight + getItemCount(r) * weights.itemCountBonus

\* menuWeights.reduce((sum, weight) => sum + weight, 0)
RECURSIVE totalWeight(_)
totalWeight(menuWeights) ==
    IF menuWeights = <<>> THEN 0
    ELSE IF Head(menuWeights) = Infinity \/ totalWeight(Tail(menuWeights)) = Infinity
    THEN Infinity
    ELSE Head(menuWeights) + totalWeight(Tail(menuWeights))

\* The walk `random -= menuWeights[i]; if (random <= 0)`: the position of the
\* pick, 0 when the walk ends without one.  With an infinite total random is
\* Infinity or NaN, every difference is NaN and no comparison holds.
walk(menuWeights, random) ==
    IF totalWeight(menuWeights) = Infinity THEN 0
    ELSE LET picks == { i \in 1..Len(menuWeights) :
                          random - totalWeight(SubSeq(menuWeights, 1, i)) <= 0 }
         IN  IF picks = {} THEN 0 ELSE CHOOSE i \in picks : \A j \in picks : i <= j

\* RandomSelectionService.selectWeightedRandomMenu(menus, weights); random
\* stands for Math.random() * totalWeight rounded up to a whole number.  When
\* the walk ends without a pick the method returns selectRandomMenu(validMenus).
SelectWeighted(list, weights) ==
    IF ValidMenus(list) = <<>>
    THEN Throws
    ELSE LET validMenus == ValidMenus(list)
             menuWeights == [i \in 1..Len(validMenus) |->
                                menuWeight(validMenus[i], weights)]
             total == totalWeight(menuWeights)
         IN  \E random \in 0..(IF total = Infinity THEN 0 ELSE total) :
                IF walk(menuWeights, random) = 0
                THEN \E draw \in 0..(Len(validMenus) - 1) :
                        Choose(validMenus, draw, Len(validMenus))
                ELSE Choose(validMenus, walk(menuWeights, random) - 1,
                            Len(validMenus))

\* Calls made on the selection service, in any order.
NextSelect ==
    \/ \E list \in Lists : SelectRandom(list)
    \/ \E list \in Lists, avoidRecentCount \in 0..MaxSize :
         SelectAntiRepeat(list, avoidRecentCount)
    \/ ClearHistory
    \/ \E size \in 0..MaxSize : SetMaxHistorySize(size)
    \/ \E list \in Lists, weights \in Weights : SelectWeighted(list, weights)
    \/ \E list \in Lists : \E draws \in Draws(Len(list)) : TestRandomness(list, draws)
    \/ \E list \in Lists : \E draws \in Draws(Len(list)) :
         CreateMultipleSelections(list, draws)

SpecSelect == Init /\ [][NextSelect]_vars

Step(p) ==
    \/ MsInitialize(p) \/ LoadStats(p) \/ LoadCache(p) \/ CheckCache(p)
    \/ ScrapeOk(p) \/ SaveOpen(p) \/ SaveWrite(p) \/ SaveRename(p)
    \/ SaveCleanup(p) \/ UpdateStats(p) \/ Fallback(p) \/ Respond(p)

Next ==
    \/ \E p \in Slots :
         \/ StartGet(p) \/ StartRefresh(p) \/ StartClear(p)
         \/ Step(p)
         \/ ClearCache(p) \/ ClearCacheFails(p)
         \/ ScrapeCaught(p) \/ ScrapeThrows(p)
         \/ SaveOpenFails(p) \/ SaveRenameFails(p) \/ UpdateStatsFails(p)
    \/ Tick
    \/ Crash

Spec == Init /\ [][Next]_vars

\* Concurrent GET /api/menus requests across midnights, with an Extractor and
\* a storage that may fail.
NextServe ==
    \/ \E p \in Slots :
         \/ StartGet(p) \/ Step(p)
         \/ ScrapeCaught(p) \/ ScrapeThrows(p)
         \/ SaveOpenFails(p) \/ SaveRenameFails(p) \/ UpdateStatsFails(p)
    \/ Tick

SpecServe == Init /\ [][NextServe]_vars

\* Concurrent GET /api/menus requests within one day, with a working
\* Extractor and working storage.
NextRace == \E p \in Slots : StartGet(p) \/ Step(p)

SpecRace == Init /\ [][NextRace]_vars

\* The same requests, and the process may die at any moment.
NextCrash == NextRace \/ Crash

SpecCrash == Init /\ [][NextCrash]_vars

\* One request at a time across midnights, in either zone setting.
NextSolo ==
    \/ StartGet("r1") \/ Step("r1")
    \/ ScrapeThrows("r1") \/ SaveRenameFails("r1")
    \/ Tick

SpecZone == InitZone /\ [][NextSolo]_vars

\* Concurrent GET /api/menus requests, each client asking again once answered.
NextChain == \E p \in Slots : StartGet(p) \/ Step(p) \/ GetAfterGet(p)

SpecChain == Init /\ [][NextChain]_vars

\* DELETE /api/cache/clear arrives while the extraction of a GET /api/menus
\* is under way or has just ended.
ClearDuringGet ==
    /\ req["r1"].kind = "get"
    /\ req["r1"].pc \in {"scrape", "save", "write", "rename"}
    /\ StartClear("r2")

\* One GET /api/menus and a clear sent while that request is in flight.
NextClear ==
    \/ StartGet("r1") \/ Step("r1") \/ SaveRenameFails("r1")
    \/ ClearDuringGet \/ Step("r2") \/ ClearCache("r2")

SpecClear == Init /\ [][NextClear]_vars

\* ------------------------------------------------------- HTTP responses
\* errorHandler: the status code for an error passed to next().  Of the
\* messages raised here only the empty-list one contains 'No menus available'
\* (404); none contains 'timeout' or 'Network error' (503); the rest get 500.
errorHandler(message) ==
    CASE message = "No menus available for random selection" -> 404
      [] OTHER -> 500

\* errorHandler: the retry field of the error body.  The NO_MENUS_AVAILABLE,
\* SOURCE_UNAVAILABLE and SCRAPING_ERROR bodies carry retry: true; the default
\* INTERNAL_ERROR body (and VALIDATION_ERROR) has no retry field.
errorRetry(message) ==
    CASE message = "No menus available for random selection" -> "true"
      [] OTHER -> "absent"

\* GET /api/menus: res.json(result), or next(error).
MenusResponse(r) == IF r.status = "ok" THEN 200 ELSE errorHandler(r.error)

\* RandomSelectionService.selectRandomMenu with the random index draw:
\* only Menu instances are eligible; the selection is a clone.
selectRandomMenu(menus, draw) ==
    LET validMenus == SelectSeq(menus, LAMBDA m : m.inst) IN
    IF menus = <<>>
    THEN [error |-> "No menus available for random selection", selectedMenu |-> <<>>]
    ELSE IF validMenus = <<>>
    THEN [error |-> "No valid menus available for random selection",
          selectedMenu |-> <<>>]
    ELSE [error |-> "", selectedMenu |-> <<validMenus[(draw % Len(validMenus)) + 1]>>]

\* GET /api/menus/random on what getAllMenus returned (or threw).
RandomResponse(r, draw) ==
    IF r.status /= "ok"
    THEN [code |-> errorHandler(r.error), selectedMenu |-> <<>>]
    ELSE IF r.menus = <<>>
    THEN [code |-> 404, selectedMenu |-> <<>>]
    ELSE LET sel == selectRandomMenu(r.menus, draw) IN
         IF sel.error /= ""
         THEN [code |-> errorHandler(sel.error), selectedMenu |-> <<>>]
         ELSE [code |-> 200, selectedMenu |-> sel.selectedMenu]

\* Menu.isCurrentlyAvailable of a Menu instance: the menus here carry no
\* availability restriction.
isCurrentlyAvailable(m) == TRUE

\* MenuService.getCurrentlyAvailableMenus on what getMenus() returned (or
\* threw): the method is called on every menu; a plain object has none.
getCurrentlyAvailableMenus(r) ==
    IF r.status /= "ok" THEN r
    ELSE IF \E i \in 1..Len(r.menus) : ~r.menus[i].inst
    THEN [NoResult EXCEPT !.status = "error",
                          !.error = "menu.isCurrentlyAvailable is not a function"]
    ELSE [r EXCEPT !.menus = SelectSeq(r.menus, isCurrentlyAvailable)]

\* One client, one request at a time: menus, random menu, cache status and
\* cache clear, with an Extractor and a storage that may fail; the cache
\* directory may hold a damaged file at start; midnight passes between requests.
InitSeq ==
    /\ now = 0
    /\ tzAhead = FALSE
    /\ cacheFile \in {NoFile, LeftoverFile, CorruptFile}
    /\ tmpFile = NoFile
    /\ statsFile = <<>>
    /\ hits = 0
    /\ misses = 0
    /\ lastAccess = "null"
    /\ isInitialized = FALSE
    /\ lastScrapingResult = <<>>
    /\ lastUpdate = "null"
    /\ req = [p \in Slots |-> ReqInit]
    /\ calls = 0
    /\ SelectionInit
    /\ ItemInit
    /\ BatchInit
    /\ LimiterInit

NextSeq ==
    \/ StartGet("r1") \/ StartRandom("r1") \/ StartStats("r1") \/ StartClear("r1")
    \/ GetAfterClear("r1")
    \/ Step("r1")
    \/ ClearCache("r1") \/ ClearCacheFails("r1")
    \/ StatsLoad("r1") \/ StatsCheck("r1") \/ StatsStat("r1")
    \/ ScrapeCaught("r1") \/ ScrapeThrows("r1")
    \/ SaveOpenFails("r1") \/ SaveRenameFails("r1") \/ UpdateStatsFails("r1")
    \/ (req["r1"].pc = "idle" /\ Tick)

SpecSeq == InitSeq /\ [][NextSeq]_vars

\* POST /api/cache/refresh sent while an entry is persisted.
RefreshWithEntry(p) ==
    /\ req[p].pc = "idle"
    /\ calls < MaxCalls
    /\ Parseable(cacheFile)
    /\ req' = [req EXCEPT ![p] = [ReqInit EXCEPT !.kind = "refresh", !.pc = "init",
                                                  !.prev = "entry"]]
    /\ calls' = calls + 1
    /\ UNCHANGED <<Limiter, Batch, Items, Selection, Clock, Files, Counters, Service>>

\* One client, one request at a time: menus and refresh, with an Extractor
\* that may fail; midnight passes between requests.
NextRefresh ==
    \/ StartGet("r1") \/ RefreshWithEntry("r1")
    \/ Step("r1") \/ ClearCache("r1")
    \/ ScrapeThrows("r1") \/ SaveRenameFails("r1")
    \/ (req["r1"].pc = "idle" /\ Tick)

SpecRefresh == InitSeq /\ [][NextRefresh]_vars

TypeOK ==
    /\ now \in 0..MaxNow
    /\ calls \in 0..MaxCalls
    /\ hits \in Nat /\ misses \in Nat
    /\ \A p \in Slots : req[p].fd \in {"none", "tmp", "cache", "orphan"}

\* ------------------------------------------------------------- claims
Cached == Origin \o " (cached)"

\* The step in which request p leaves program point at (and is not killed).
Leaves(p, at) == req[p].pc = at /\ req'[p].pc \notin {at, "idle"}

C2_ValidInConfiguredZone ==
    [][ \A p \in Slots :
          Leaves(p, "check")
          => ( (req'[p].pc = "done" /\ req'[p].result.source = Cached)
               <=> ( /\ Parseable(req[p].data)
                     /\ req[p].data.e[1].date = ZoneDate(now) ) )
      ]_vars

C4_WriteFailureServesFresh ==
    \A p \in Slots :
        (req[p].pc = "done" /\ req[p].err = "Cache save failed")
        => ( /\ req[p].result.status = "ok"
             /\ req[p].result.source = Origin
             /\ req[p].result.menus = req[p].menus )

\* C5: whatever the interleaving of writes and reads, the text a read()
\* or a readStaleFallback() finds at the cache path is either absent or one
\* complete entry.
C5_ReadersSeeCompleteEntry ==
    [][ \A p \in Slots :
          (Leaves(p, "load") \/ Leaves(p, "fallback"))
          => (~cacheFile.exists \/ Parseable(cacheFile))
      ]_vars

\* C6: when the process dies while a write is between opening its temp file
\* and its rename, and a complete entry was persisted when that write began,
\* the cache path still holds a complete entry afterwards.
C6_CrashLeavesCompleteEntry ==
    [][ Crash
        => \A p \in Slots :
             (req[p].pc \in {"write", "rename"} /\ req[p].old)
             => Parseable(cacheFile')
      ]_vars

\* C7: of the requests in flight together at most one calls the Extractor.
C7_SingleScrape ==
    \A p, q \in Slots :
        (req[p].scrapes = 1 /\ req[q].scrapes = 1) => p = q

\* C8: when all concurrent requests have finished, each has answered with a
\* menu list and a valid entry for today is persisted.
C8_AllSucceedAndCacheValid ==
    (\A p \in Slots : req[p].pc = "done")
    => ( /\ \A p \in Slots : req[p].result.status = "ok"
         /\ isCacheValid(cacheFile) )

\* C9: within one day and without a clear or refresh, all requests answered
\* by a fresh fetch or a cache hit answer the same menu data.
C9_SameDataForAll ==
    \A p, q \in Slots :
        ( /\ req[p].pc = "done" /\ req[p].result.source \in {Origin, Cached}
          /\ req[q].pc = "done" /\ req[q].result.source \in {Origin, Cached} )
        => ToJSON(req[p].result.menus) = ToJSON(req[q].result.menus)

\* C10: whatever refreshMenus() answers comes from its own extraction: its
\* source is the plain origin, never a cache hit or another request's entry.
C10_RefreshBypassesCache ==
    \A p \in Slots :
        (req[p].kind = "refresh" /\ req[p].pc = "done" /\ req[p].result.status = "ok")
        => req[p].result.source = Origin

\* C11: clear() succeeds also when no entry existed and leaves nothing a read()
\* would return; the GET /api/menus a client sends after the clear has returned
\* misses the cache, calls the Extractor exactly once and never answers with a
\* source ending in " (cached)".
C11_ClearThenFreshFetch ==
    [][ \A p \in Slots :
          /\ (Leaves(p, "clear") /\ req[p].kind = "clear" /\ ~cacheFile.exists)
             => req'[p].result.status = "ok"
          /\ (Leaves(p, "clear") /\ req[p].kind = "clear"
                /\ req'[p].result.status = "ok")
             => loadCache(cacheFile') = <<>>
          /\ (Leaves(p, "check") /\ req[p].prev = "clear")
             => req'[p].pc = "scrape"
          /\ (req'[p].pc = "done" /\ req'[p].prev = "clear")
             => (req'[p].scrapes = 1 /\ req'[p].result.source /= Cached)
      ]_vars

\* A GET sent after a clear, which followed an earlier request, was answered fresh.
C11_Witness ==
    \E p \in Slots :
        /\ req[p].prev = "clear" /\ req[p].pc = "done"
        /\ req[p].result.status = "ok" /\ req[p].result.source = Origin
        /\ req[p].scrapes = 1
        /\ calls = 2 /\ misses = 2

\* C12: a getMenus() that missed the cache, whose extraction succeeded and
\* whose storage did not fail returns with the plain origin as source and
\* leaves one persisted entry and no temporary file; the entry's date is
\* today, its menuData the processed menus, and its scrapingResult.menusFound
\* the number of raw menus the Extractor returned, counted before filtering.
C12_FreshFetchPersistsEntry ==
    \A p \in Slots :
        ( /\ req[p].pc = "done" /\ req[p].kind = "get"
          /\ req[p].sres /= <<>> /\ req[p].sres[1].success
          /\ req[p].err = "" )
        => ( /\ req[p].result.status = "ok"
             /\ req[p].result.source = Origin
             /\ ~tmpFile.exists
             /\ Parseable(cacheFile)
             /\ cacheFile.e[1].date = LocalDate(now)
             /\ cacheFile.e[1].menuData = ToJSON(req[p].result.menus)
             /\ \E site \in Sites :
                  /\ req[p].result.menus = processMenus(site)
                  /\ cacheFile.e[1].scrapingResult.success
                  /\ cacheFile.e[1].scrapingResult.menusFound = Len(site) )

\* The first request fetched two raw menus, one of which was filtered out,
\* and persisted the entry.
C12_Witness ==
    \E p \in Slots :
        /\ req[p].pc = "done" /\ req[p].kind = "get" /\ calls = 1
        /\ req[p].result.source = Origin
        /\ Len(req[p].result.menus) = 1
        /\ Parseable(cacheFile)
        /\ cacheFile.e[1].scrapingResult.menusFound = 2

C14_RandomFromCachedList ==
    \A p \in Slots :
        ( /\ req[p].pc = "done" /\ req[p].kind = "random"
          /\ req[p].result.status = "ok"
          /\ req[p].result.source = Cached
          /\ req[p].result.menus /= <<>> )
        => \A draw \in 0..(Len(req[p].result.menus) - 1) :
             LET r == RandomResponse(req[p].result, draw) IN
             /\ r.code = 200
             /\ r.selectedMenu /= <<>>
             /\ \E k \in 1..Len(req[p].result.menus) :
                  PlainMenu(r.selectedMenu[1]) = PlainMenu(req[p].result.menus[k])

\* C15: GET /api/menus answers 200 whenever getMenus() resolves (cache hit,
\* fresh fetch or stale fallback), and answers 500 only when the request had
\* no cache hit, no successful fetch and no stale entry to serve.
C15_ServerErrorOnlyWithoutData ==
    \A p \in Slots :
        (req[p].pc = "done" /\ req[p].kind = "get")
        => ( /\ req[p].result.status = "ok" => MenusResponse(req[p].result) = 200
             /\ MenusResponse(req[p].result) = 500
                => ~(req[p].sres /= <<>> /\ req[p].sres[1].success) )

\* C16: stats() does not touch the telemetry: no step of a getCacheStats()
\* call changes the hits or the misses counter.
C16_StatsLeavesCounters ==
    [][ \A p \in Slots :
          ( /\ req[p].kind = "stats"
            /\ req[p].pc \in {"statsLoad", "statsCheck", "statsStat"}
            /\ req'[p].pc /= req[p].pc )
          => (hits' = hits /\ misses' = misses)
      ]_vars

\* C17: every read() (loadCache, from getMenus or from stats) increments
\* exactly one counter: hits when the text read is an entry dated today, which
\* it then returns, and misses otherwise; on a missing, stale or unparseable
\* file it reports no entry and the caller goes on without an error.
C17_ReadCountsOnce ==
    [][ \A p \in Slots :
          (Leaves(p, "check") \/ Leaves(p, "statsCheck"))
          => LET valid == /\ Parseable(req[p].data)
                          /\ req[p].data.e[1].date = LocalDate(now)
             IN /\ hits' + misses' = hits + misses + 1
                /\ valid => (hits' = hits + 1 /\ misses' = misses)
                /\ ~valid => (misses' = misses + 1 /\ hits' = hits)
                /\ req'[p].err = "" /\ req'[p].result.status /= "error"
                /\ req[p].pc = "check"
                   => IF valid
                      THEN /\ req'[p].pc = "done"
                           /\ req'[p].result.menus = req[p].data.e[1].menuData
                      ELSE req'[p].pc = "scrape"
                /\ req[p].pc = "statsCheck"
                   => /\ req'[p].pc = "statsStat"
                      /\ req'[p].data.e = (IF valid THEN req[p].data.e ELSE <<>>)
      ]_vars

\* A read of an unparseable file was counted as the first miss and the request went on.
C17_Witness ==
    \E p \in Slots :
        /\ cacheFile = CorruptFile
        /\ req[p].pc \in {"scrape", "statsStat"}
        /\ misses = 1 /\ hits = 0

\* C18: readStaleFallback() returns the persisted entry whatever its date (the
\* catch branch then serves that entry's data and date), and returns no entry
\* (the catch branch rethrows) only when the file is absent or does not parse.
C18_FallbackIgnoresDate ==
    [][ \A p \in Slots :
          Leaves(p, "fallback")
          => IF Parseable(cacheFile)
             THEN /\ req'[p].result.status = "ok"
                  /\ req'[p].result.menus = cacheFile.e[1].menuData
                  /\ req'[p].result.cacheDate = cacheFile.e[1].date
                  /\ req'[p].result.source = Origin \o " (stale cache)"
             ELSE /\ req'[p].result.status = "error"
                  /\ req'[p].result.error = req[p].err
      ]_vars

\* A fallback read returned an entry dated today, written by a concurrent request.
C18_Witness ==
    \E p \in Slots :
        /\ req[p].pc = "done" /\ req[p].result.status = "ok"
        /\ req[p].result.warning /= ""
        /\ req[p].result.cacheDate = LocalDate(now)

C20_InitializeIdempotent ==
    [][ \A p \in Slots :
          (Leaves(p, "loadStats") /\ isInitialized)
          => (hits' = hits /\ misses' = misses)
      ]_vars

\* C21: every failure response of the API carries a boolean retry field: the
\* body errorHandler builds for an error a route passed on has retry set to
\* true or to false.
C21_FailuresCarryRetry ==
    \A p \in Slots :
        (req[p].pc = "done" /\ req[p].result.status = "error")
        => ( /\ errorHandler(req[p].result.error) \notin {200}
             /\ errorRetry(req[p].result.error) \in {"true", "false"} )

\* C22: a selection never changes the menus it was handed: every menu object
\* of the caller keeps all its fields, isSelected included, through any
\* sequence of calls, and what a selection returns is another object, a copy
\* of the chosen menu with isSelected = true.
C22_SelectionLeavesInput ==
    [][ /\ \A r \in MenuRefs : menuObjs'[r] = menuObjs[r]
        /\ (selections' /= selections /\ selections' /= <<>>)
           => ( /\ selectedMenu' \notin MenuRefs
                /\ menuObjs'[selectedMenu'].isSelected
                /\ menuObjs'[selectedMenu'].inst
                /\ menuObjs'[selectedMenu'].id = selections'[Len(selections')] )
      ]_vars

\* After two selections the returned copy of menu a is marked selected and
\* menu a itself is not.
C22_Witness ==
    /\ Len(selections) >= 2
    /\ selectedMenu = "out"
    /\ menuObjs["out"].isSelected /\ menuObjs["out"].id = "hertsi"
    /\ ~menuObjs["a"].isSelected

\* C23: after any sequence of selections, history clears and maximum-size
\* changes the selection history holds at most maxHistorySize ids, and they
\* are the most recent selections in their order: the history is the tail of
\* the sequence of ids selected since the last clear.
C23_HistoryBoundedAndRecent ==
    /\ maxHistorySize >= 1
    /\ Len(selectionHistory) <= maxHistorySize
    /\ Len(selectionHistory) <= Len(selections)
    /\ \A i \in 1..Len(selectionHistory) :
         selectionHistory[i] =
             selections[Len(selections) - Len(selectionHistory) + i]

\* Three selections with the maximum set to two: the oldest id was evicted.
C23_Witness ==
    /\ maxHistorySize = 2
    /\ Len(selections) = 3
    /\ Len(selectionHistory) = 2
    /\ selections[1] /= selections[2]

\* The ids in the last n entries of the selection history.
RecentIds(n) ==
    { selectionHistory[i] :
        i \in { j \in 1..Len(selectionHistory) : j > Len(selectionHistory) - n } }

\* C24: selectRandomAvoidingRecent(menus, avoidCount) on a list with at least
\* one valid menu always returns a menu, and as long as some menu of the list
\* has an id outside the last avoidCount history entries the returned menu's
\* id is outside them too.
C24_AvoidsRecentWhenPossible ==
    [][ \A list \in Lists, n \in 0..MaxSize :
          (SelectAntiRepeat(list, n) /\ ValidMenus(list) /= <<>>)
          => ( /\ selectedMenu' /= "none"
               /\ selections' = Append(selections, menuObjs'[selectedMenu'].id)
               /\ (\E i \in 1..Len(ValidMenus(list)) :
                      menuObjs[ValidMenus(list)[i]].id \notin RecentIds(n))
                  => menuObjs'[selectedMenu'].id \notin RecentIds(n) )
      ]_vars

\* The business rules of a scraping result (error "" stands for null).
ResultRules(r) ==
    /\ ~r.success => (r.error /= "" /\ r.menusFound = 0)
    /\ r.success => r.error = ""
    /\ r.menusFound >= 0

\* C25: every ScrapingResult in the system obeys the rules: the one a request
\* got from the Extractor, the one MenuService holds, and the ones inside the
\* entry a request is writing, inside the text a request has read and inside
\* the files.
C25_ScrapingResultRules ==
    /\ \A i \in 1..Len(lastScrapingResult) : ResultRules(lastScrapingResult[i])
    /\ \A i \in 1..Len(cacheFile.e) : ResultRules(cacheFile.e[i].scrapingResult)
    /\ \A i \in 1..Len(tmpFile.e) : ResultRules(tmpFile.e[i].scrapingResult)
    /\ \A p \in Slots :
         /\ \A i \in 1..Len(req[p].sres) : ResultRules(req[p].sres[i])
         /\ \A i \in 1..Len(req[p].ent) : ResultRules(req[p].ent[i].scrapingResult)
         /\ \A i \in 1..Len(req[p].data.e) :
              ResultRules(req[p].data.e[i].scrapingResult)

\* A failure result is held by MenuService and stored in the persisted entry.
C25_Witness ==
    /\ lastScrapingResult /= <<>>
    /\ ~lastScrapingResult[1].success
    /\ Parseable(cacheFile)
    /\ cacheFile.e[1].scrapingResult = lastScrapingResult[1]

\* C26: normalizing an item that was already normalized leaves the same
\* item and ends the same way: the second enrichMenuItem call changes nothing.
C26_NormalizeIdempotent ==
    Len(passes) >= 2 => passes[2] = passes[1]

\* C27: once all the requests that missed together and each wrote the cache
\* have finished, one complete entry is persisted, no temp file is left, and
\* the entry is the one of a request whose replace took place.
C27_LastWriterWins ==
    (\A p \in Slots : req[p].pc = "done" /\ req[p].ent /= <<>>)
    => /\ Parseable(cacheFile)
       /\ ~tmpFile.exists
       /\ \E p \in Slots :
            /\ req[p].result.source = Origin
            /\ cacheFile.e = req[p].ent

\* saveCache of request p resolved: getAllMenus went on to the fresh response.
SaveSucceeded(p) == req[p].pc = "done" /\ req[p].result.source = Origin

\* C28: of two requests that both wrote the cache and have finished, the
\* saveCache of at least one resolved, and each saveCache that resolved
\* returned the entry made of the menus and the scraping result it was given.
\* (Under SpecChain both saveCache calls can only be rejected when they
\* overlapped: the second loses its temp file to the first one's cleanup.)
C28_ConcurrentWrites ==
    (\A p \in Slots : req[p].pc = "done" /\ req[p].ent /= <<>>)
    => /\ \E p \in Slots : SaveSucceeded(p)
       /\ \A p \in Slots :
            SaveSucceeded(p) =>
              /\ req[p].ent[1].menuData = ToJSON(req[p].menus)
              /\ req[p].ent[1].scrapingResult = req[p].sres[1]
              /\ req[p].result.menus = req[p].menus

\* C29: MenuService initializes its CacheService at most once per process:
\* no CacheService.initialize() completes after one has already completed.
C29_InitializedOnce ==
    [][ \A p \in Slots : Leaves(p, "loadStats") => ~isInitialized ]_vars

\* C30: while the client holds the success response of a clear that was sent
\* during a request's extraction, no read returns an entry: the cache file
\* holds no entry that loadCache accepts.
C30_InFlightDoesNotRepopulate ==
    (/\ req["r2"].kind = "clear"
     /\ req["r2"].pc = "done"
     /\ req["r2"].result.status = "ok")
    => ~isCacheValid(cacheFile)

\* C31: a refreshMenus() called while an entry was persisted and whose
\* extraction failed still serves the caller data (the stale entry), not an
\* error.
C31_FailedRefreshStillServes ==
    \A p \in Slots :
        (/\ req[p].kind = "refresh" /\ req[p].prev = "entry"
         /\ req[p].pc = "done" /\ req[p].err = "Scraping failed")
        => req[p].result.status = "ok"

\* C32: every persisted entry carries a scraping result with success = true.
C32_PersistedEntriesSucceeded ==
    \A i \in 1..Len(cacheFile.e) : cacheFile.e[i].scrapingResult.success

\* C33: where getMenus() resolves a list, getCurrentlyAvailableMenus() resolves
\* too, with the menus of that list that are available.
C33_FilteredViewFollowsMain ==
    \A p \in Slots :
        (req[p].kind = "get" /\ req[p].pc = "done" /\ req[p].result.status = "ok")
        => /\ getCurrentlyAvailableMenus(req[p].result).status = "ok"
           /\ getCurrentlyAvailableMenus(req[p].result).menus
                = SelectSeq(req[p].result.menus, isCurrentlyAvailable)

\* C34: the menus of one processed batch have usable ids (not empty, not
\* 'undefined') and no two of them have the same id.
C34_IdsDistinctAndUsable ==
    processed /= <<>> =>
        /\ \A i \in 1..Len(processed[1]) : processed[1][i].id \notin {"", "undefined"}
        /\ \A i, j \in 1..Len(processed[1]) :
              i /= j => processed[1][i].id /= processed[1][j].id

\* C35: no menu of a processed batch has zero items.
C35_NoEmptyMenus ==
    processed /= <<>> =>
        \A i \in 1..Len(processed[1]) : processed[1][i].items /= <<>>

\* The titles of a list of menus, in order.
Titles(menus) == [i \in 1..Len(menus) |-> menus[i].title]

C37_HelpersKeepHistory ==
    [][ selectionHistory' /= selectionHistory
        => ~( \/ \E list \in Lists : \E draws \in Draws(Len(list)) :
                   TestRandomness(list, draws)
              \/ \E list \in Lists : \E draws \in Draws(Len(list)) :
                   CreateMultipleSelections(list, draws) )
      ]_vars

\* A helper ran on a non-empty history: the last selection it made is not
\* the last id of the history.
C37_Witness ==
    /\ selectionHistory /= <<>>
    /\ lastSelection /= <<>>
    /\ lastSelection[1].menuId /= selectionHistory[Len(selectionHistory)]

\* ----------------------------------------------- the rate limiter at work
\* The window and the limit, scaled down from 60 * 1000 ms and 200 requests,
\* the last clock reading and the most requests one client makes.
windowMs == 2
maxRequests == 2
MaxClock == 3
MaxAsked == 4

\* ipRequests.filter(timestamp => timestamp > windowStart), at time t.
recentRequests(ipRequests, t) ==
    SelectSeq(ipRequests, LAMBDA timestamp : timestamp > t - windowMs)

\* A variant of the list a turned-away request leaves: the request recorded.
recordedOnRejectPushes(recent, t) == Append(recent, t)

\* The list isAllowed leaves for a request it turns away.
recordedOnReject(recent, t) == recent

\* SimpleRateLimiter.isAllowed(ip) at the current clock reading.
IsAllowed(ip) ==
    /\ Len(admitted[ip]) + Len(rejected[ip]) < MaxAsked
    /\ LET recent == recentRequests(requests[ip], clock)
       IN  IF Len(recent) >= maxRequests
           THEN /\ requests' = [requests EXCEPT ![ip] = recordedOnReject(recent, clock)]
                /\ rejected' = [rejected EXCEPT ![ip] = Append(@, clock)]
                /\ UNCHANGED admitted
           ELSE /\ requests' = [requests EXCEPT ![ip] = Append(recent, clock)]
                /\ admitted' = [admitted EXCEPT ![ip] = Append(@, clock)]
                /\ UNCHANGED rejected
    /\ UNCHANGED <<clock, Batch, Items, Selection, Service0>>

\* SimpleRateLimiter.cleanup(): every list pruned, empty entries deleted.
Cleanup ==
    /\ requests' = [ip \in Clients |-> recentRequests(requests[ip], clock)]
    /\ UNCHANGED <<clock, admitted, rejected, Batch, Items, Selection, Service0>>

\* A millisecond passes.
Advance ==
    /\ clock < MaxClock
    /\ clock' = clock + 1
    /\ UNCHANGED <<requests, admitted, rejected, Batch, Items, Selection, Service0>>

NextLimiter ==
    \/ \E ip \in Clients : IsAllowed(ip)
    \/ Cleanup
    \/ Advance

\* Requests of the clients arrive at the limiter as time passes.
SpecLimiter == InitSeq /\ [][NextLimiter]_vars

\* C38: selectWeighted on a list with a valid menu returns a copy of one of
\* its menus, and when the walk over the cumulative weights ends without a
\* pick the menu returned is the last candidate.
C38_WeightedFallsToLast ==
    [][ \A list \in Lists, weights \in Weights :
          (SelectWeighted(list, weights) /\ ValidMenus(list) /= <<>>)
          => LET validMenus == ValidMenus(list)
                 menuWeights == [i \in 1..Len(validMenus) |->
                                    menuWeight(validMenus[i], weights)]
             IN  /\ selectedMenu' /= "none"
                 /\ \E i \in 1..Len(validMenus) :
                      menuObjs'[selectedMenu'].id = menuObjs[validMenus[i]].id
                 /\ (\A random \in 0..(IF totalWeight(menuWeights) = Infinity
                                         THEN 0 ELSE totalWeight(menuWeights)) :
                        walk(menuWeights, random) = 0)
                    => menuObjs'[selectedMenu'].id
                         = menuObjs[validMenus[Len(validMenus)]].id
      ]_vars

\* The time stamps of a list that lie in the window ending at t.
InWindow(stamps, t) == { i \in 1..Len(stamps) : stamps[i] > t - windowMs /\ stamps[i] <= t }

\* C39: for every client and every window of windowMs the limiter has let
\* through at most maxRequests requests; a request is turned away only when
\* the window is full, and it is not recorded: the recorded time stamps
\* still in the window are exactly those of the requests let through.
C39_WindowBound ==
    \A ip \in Clients :
        /\ \A t \in 0..MaxClock :
              Cardinality(InWindow(admitted[ip], t)) <= maxRequests
        /\ recentRequests(requests[ip], clock) = recentRequests(admitted[ip], clock)
        /\ \A i \in 1..Len(rejected[ip]) :
              Cardinality(InWindow(admitted[ip], rejected[ip][i])) = maxRequests

\* A client was turned away and, the window having moved on, let through.
C39_Witness ==
    \E ip \in Clients :
        /\ rejected[ip] /= <<>>
        /\ Len(admitted[ip]) > maxRequests
        /\ admitted[ip][Len(admitted[ip])] > rejected[ip][1]

====
